---- MODULE Spec2Model ----
(***************************************************************************)
(* LiquidityLens: the snapshot fetcher (LiquidityLens.py) and the          *)
(* moving-average dashboard (liquidity_dashboard.py).                      *)
(*                                                                         *)
(* Numbers are exact rationals [num, den, e9] standing for                 *)
(* num / (den * 10^(9*e9)); den = 0 is NaN (a missing observation or an    *)
(* undefined rolling mean).  Row positions are 1-based: the source's       *)
(* position i is position i+1 here.                                        *)
(***************************************************************************)
EXTENDS Integers, Sequences, FiniteSets, TLC

(* ------------------------------ bounds --------------------------------- *)
MaxVal == 2        \* observations range over 1..MaxVal or NaN
MaxLen == 3        \* rows of a table handed to the engine harness
MaxWin == 3        \* largest window length the harness passes
MaxWinList == 2    \* longest explicit window list the harness passes
MaxCalls == 3      \* engine calls in one harness run

(* ------------------------------ numbers -------------------------------- *)
NaN == [num |-> 0, den |-> 0, e9 |-> 0]
Obs(v) == [num |-> v, den |-> 1, e9 |-> 0]
IsNaN(x) == x.den = 0

\* Python's float '>' : False whenever either side is NaN
GT(a, b) == ~IsNaN(a) /\ ~IsNaN(b) /\ a.num * b.den > b.num * a.den
EqNum(a, b) == ~IsNaN(a) /\ ~IsNaN(b) /\ a.e9 = b.e9 /\ a.num * b.den = b.num * a.den

\* series / 1e9 (liquidity_dashboard.py:61): NaN stays NaN
DivBy1e9(x) == IF IsNaN(x) THEN NaN ELSE [x EXCEPT !.e9 = @ + 1]

(* ------------------------------ tables --------------------------------- *)
Columns == {"Fed_Funds_Rate", "TED_Spread", "Excess_Reserves"}
Table(f, t, r) == [loaded |-> TRUE, Fed_Funds_Rate |-> f, TED_Spread |-> t, Excess_Reserves |-> r]
NoData == [loaded |-> FALSE, Fed_Funds_Rate |-> <<>>, TED_Spread |-> <<>>, Excess_Reserves |-> <<>>]
NRows(d) == Len(d.Fed_Funds_Rate)
\* self.data is None or self.data.empty
IsEmpty(d) == ~d.loaded \/ NRows(d) = 0

ColumnOf(d, column) ==
    IF column = "Fed_Funds_Rate" THEN d.Fed_Funds_Rate
    ELSE IF column = "TED_Spread" THEN d.TED_Spread
    ELSE d.Excess_Reserves

EmptyFrame == [kind |-> "frame", column |-> "", series |-> <<>>, MA |-> [w \in {} |-> <<>>]]
ValueError == [kind |-> "ValueError", column |-> "", series |-> <<>>, MA |-> [w \in {} |-> <<>>]]

(* ------------------------- rolling(window).mean() ---------------------- *)
\* An accumulator that never drops the observation leaving the window.
RECURSIVE RollStateExpanding(_, _, _)
RollStateExpanding(s, w, i) ==
    IF i = 0 THEN [nobs |-> 0, sum_x |-> 0, e9 |-> 0]
    ELSE LET p == RollStateExpanding(s, w, i - 1)
         IN  IF IsNaN(s[i]) THEN p
             ELSE [nobs |-> p.nobs + 1, sum_x |-> p.sum_x + s[i].num, e9 |-> s[i].e9]

\* Sliding accumulator of the rolling mean: after position i it holds the
\* number of non-NaN observations in the window ending at i and their sum.
RECURSIVE RollState(_, _, _)
RollState(s, w, i) ==
    IF i = 0 THEN [nobs |-> 0, sum_x |-> 0, e9 |-> 0]
    ELSE LET p == RollState(s, w, i - 1)
             a == IF IsNaN(s[i]) THEN p
                  ELSE [nobs |-> p.nobs + 1, sum_x |-> p.sum_x + s[i].num, e9 |-> s[i].e9]
             o == i - w
         IN  IF o >= 1 /\ o <= i /\ ~IsNaN(s[o])
             THEN [a EXCEPT !.nobs = @ - 1, !.sum_x = @ - s[o].num]
             ELSE a

\* min_periods defaults to the window length
MinPeriodsPartial(w) == IF w > 0 THEN 1 ELSE 0
MinPeriods(w) == w

CalcMean(minp, st) ==
    IF st.nobs >= minp /\ st.nobs > 0
    THEN [num |-> st.sum_x, den |-> st.nobs, e9 |-> st.e9]
    ELSE NaN

RollingMean(s, w) == [i \in 1..Len(s) |-> CalcMean(MinPeriods(w), RollState(s, w, i))]

(* --------------------- LiquidityDashboard (engine) --------------------- *)
NoneArg == <<>>
Some(x) == <<x>>
DefaultWindows == <<5, 10, 20, 50>>

\* for window in windows: ma_data[f'MA_{window}'] = ...rolling(window).mean()
\* rolling() raises ValueError for a negative window; a repeated window
\* overwrites its own column.
RECURSIVE AddMAs(_, _, _)
AddMAs(ma, ws, k) ==
    IF k > Len(ws) THEN ma
    ELSE IF ws[k] < 0 THEN ValueError
    ELSE AddMAs([ma EXCEPT !.MA = [w \in (DOMAIN ma.MA) \cup {ws[k]} |->
                                      IF w = ws[k] THEN RollingMean(ma.series, w)
                                      ELSE ma.MA[w]]],
                ws, k + 1)

BaseSeries(d, column) ==
    IF column = "Excess_Reserves_Billions"
    THEN [i \in 1..NRows(d) |-> DivBy1e9(d.Excess_Reserves[i])]
    ELSE ColumnOf(d, column)

\* A variant that converts the reserves column in place.
calculate_moving_averages_inplace(self, column, windows) ==
    LET ws == IF windows = NoneArg THEN self.ma_windows ELSE windows[1]
        d2 == IF column = "Excess_Reserves_Billions"
              THEN [self.data EXCEPT !.Excess_Reserves = BaseSeries(self.data, column)]
              ELSE self.data
    IN  IF IsEmpty(self.data)
        THEN [self |-> self, ret |-> EmptyFrame]
        ELSE [self |-> [self EXCEPT !.data = d2],
              ret  |-> AddMAs([kind |-> "frame", column |-> column,
                               series |-> BaseSeries(self.data, column),
                               MA |-> [w \in {} |-> <<>>]], ws, 1)]

\* LiquidityDashboard.calculate_moving_averages: the object after the call
\* and the value returned (or the exception raised).
calculate_moving_averages(self, column, windows) ==
    LET ws == IF windows = NoneArg THEN self.ma_windows ELSE windows[1]
    IN  IF IsEmpty(self.data)
        THEN [self |-> self, ret |-> EmptyFrame]
        ELSE [self |-> self,
              ret  |-> AddMAs([kind |-> "frame", column |-> column,
                               series |-> BaseSeries(self.data, column),
                               MA |-> [w \in {} |-> <<>>]], ws, 1)]

(* ------------------------------ state ---------------------------------- *)
VARIABLES
    files,        \* the working directory: files matching liquidity_data_*.csv
    dashboard,    \* the LiquidityDashboard object: [data, ma_windows]
    pc,           \* position in liquidity_dashboard.main
    selected,     \* selected_ma_periods returned by the sidebar multiselect
    loaded_from,  \* latest_file read by load_data (a sequence of 0 or 1 files)
    errors,       \* st.error messages shown
    rendered,     \* page sections rendered so far, in order
    metrics,      \* the three st.metric cards
    analysis,     \* what add_ma_analysis returned
    charts,       \* the traces of the three charts
    crossovers,   \* the Moving Average Crossovers report
    recent,       \* rows shown in the Recent Data table
    first,        \* engine harness: the first call and what it returned
    again,        \* engine harness: what a repeated call returned (0 or 1 results)
    ncalls,       \* engine harness: calls made
    fpc,          \* position in LiquidityLens.main
    fetched,      \* LiquidityLens.main: fed_funds, treasury_yields, ted_spread, excess_reserves
    mat,          \* get_treasury_yields: maturities fetched so far
    log,          \* lines printed by the fetcher's except handlers
    report        \* lines of the daily report printed

vars == <<files, dashboard, pc, selected, loaded_from, errors, rendered, metrics,
          analysis, charts, crossovers, recent, first, again, ncalls,
          fpc, fetched, mat, log, report>>

dashVars == <<dashboard, pc, selected, loaded_from, errors, rendered, metrics,
              analysis, charts, crossovers, recent>>
harnessVars == <<first, again, ncalls>>
fetchVars == <<fpc, fetched, mat, log, report>>

(* -------------------------- LiquidityDashboard ------------------------- *)
\* LiquidityDashboard.__init__
NewDashboard == [data |-> NoData, ma_windows |-> DefaultWindows]

Last(s) == s[Len(s)]

\* CSV cells of the Excess_Reserves column as text: a plain number, a number
\* written with thousands separators, or text that is not a number.
Cell(kind, v) == [text |-> kind, v |-> v]
\* pd.to_numeric(col.astype(str).str.replace(',', ''), errors='coerce')
ToNumeric(cell) == IF cell.text \in {"number", "commas"} THEN Obs(cell.v) ELSE NaN

\* pd.read_csv followed by the Excess_Reserves conversion
ParseTable(t) ==
    Table(t.Fed_Funds_Rate, t.TED_Spread,
          [i \in 1..Len(t.Excess_Reserves) |-> ToNumeric(t.Excess_Reserves[i])])

\* max(files, key=lambda x: x.stat().st_mtime): a file whose mtime no other exceeds
OldestFiles(fs) == {f \in fs : \A g \in fs : g.mtime >= f.mtime}
LatestFiles(fs) == {f \in fs : \A g \in fs : g.mtime <= f.mtime}

\* LiquidityDashboard.load_data, given the file max() picked
load_data(self, fs, latest_file) ==
    IF fs = {}
    THEN [self |-> self, ret |-> FALSE, err |-> <<"No data files found">>, file |-> <<>>]
    ELSE IF latest_file.kind = "unreadable"
    THEN [self |-> self, ret |-> FALSE, err |-> <<"Error loading data">>, file |-> <<>>]
    ELSE LET d == ParseTable(latest_file.table)
         IN  IF NRows(d) = 0
             THEN [self |-> [self EXCEPT !.data = d], ret |-> FALSE,
                   err |-> <<"Data file is empty">>, file |-> <<>>]
             ELSE [self |-> [self EXCEPT !.data = d], ret |-> TRUE,
                   err |-> <<>>, file |-> <<latest_file>>]

Sub(a, b) == IF IsNaN(a) \/ IsNaN(b) THEN NaN ELSE [a EXCEPT !.num = a.num - b.num]

\* LiquidityDashboard.calculate_metric_change
calculate_metric_change(self, column) ==
    LET s == ColumnOf(self.data, column)
    IN  IF Len(s) < 2 THEN Obs(0) ELSE Sub(s[Len(s)], s[Len(s) - 1])

\* A variant without the isnan guard.
RECURSIVE MaAnalysisNoGuard(_, _, _, _)
MaAnalysisNoGuard(current_value, ma, ws, k) ==
    IF k > Len(ws) THEN <<>>
    ELSE <<[verdict |-> IF GT(current_value, Last(ma.MA[ws[k]])) THEN "above" ELSE "below",
            window |-> ws[k]]>> \o MaAnalysisNoGuard(current_value, ma, ws, k + 1)

\* "above"/"below" of the latest value against each window's latest mean;
\* a window whose mean is NaN contributes nothing.
RECURSIVE MaAnalysis(_, _, _, _)
MaAnalysis(current_value, ma, ws, k) ==
    IF k > Len(ws) THEN <<>>
    ELSE LET ma_value == Last(ma.MA[ws[k]])
             rest == MaAnalysis(current_value, ma, ws, k + 1)
         IN  IF ~IsNaN(ma_value)
             THEN <<[verdict |-> IF GT(current_value, ma_value) THEN "above" ELSE "below",
                     window |-> ws[k]]>> \o rest
             ELSE rest

AnalysisColumns == <<"Fed_Funds_Rate", "TED_Spread", "Excess_Reserves_Billions">>
AnalysisLabel(column) ==
    IF column = "Excess_Reserves_Billions" THEN "Excess Reserves" ELSE column

\* LiquidityDashboard.add_ma_analysis: one line per column that has at least
\* one classification
RECURSIVE AnalysisLines(_, _)
AnalysisLines(self, c) ==
    IF c > Len(AnalysisColumns) THEN <<>>
    ELSE LET ma == calculate_moving_averages(self, AnalysisColumns[c], NoneArg).ret
             ma_analysis == MaAnalysis(Last(ma.series), ma, self.ma_windows, 1)
             rest == AnalysisLines(self, c + 1)
         IN  IF ma_analysis # <<>>
             THEN <<[column |-> AnalysisLabel(AnalysisColumns[c]), items |-> ma_analysis]>> \o rest
             ELSE rest

add_ma_analysis(self) ==
    IF IsEmpty(self.data)
    THEN [text |-> "No data available for analysis", lines |-> <<>>]
    ELSE [text |-> "lines", lines |-> AnalysisLines(self, 1)]

RECURSIVE SelectSeq2(_, _, _)
SelectSeq2(ws, present, k) ==
    IF k > Len(ws) THEN <<>>
    ELSE IF ws[k] \in present THEN <<ws[k]>> \o SelectSeq2(ws, present, k + 1)
    ELSE SelectSeq2(ws, present, k + 1)

\* LiquidityDashboard.plot_with_moving_averages: the traces of the figure
plot_with_moving_averages(self, column) ==
    IF IsEmpty(self.data) THEN <<>>
    ELSE LET ma == calculate_moving_averages(self, column, NoneArg).ret
         IN  <<[column |-> column, series |-> ma.series,
                ma_traces |-> SelectSeq2(self.ma_windows, DOMAIN ma.MA, 1)]>>

SeqMax(s) == CHOOSE m \in {s[k] : k \in 1..Len(s)} : \A k \in 1..Len(s) : s[k] <= m

\* for i in range(len-1): for j in range(i+1, len): the index pairs in order
RECURSIVE PairSeq(_, _, _)
PairSeq(n, i, j) ==
    IF i > n - 1 THEN <<>>
    ELSE IF j > n THEN PairSeq(n, i + 1, i + 2)
    ELSE <<<<i, j>>>> \o PairSeq(n, i, j + 1)

\* The comparison that decides "above"/"below" of a pair's latest means
CrossVerdict(a, b) == IF GT(a, b) THEN "above" ELSE "below"

CrossoverPairs(ma, ws) ==
    LET ps == PairSeq(Len(ws), 1, 2)
    IN  [k \in 1..Len(ps) |->
            [ma1 |-> ws[ps[k][1]], ma2 |-> ws[ps[k][2]],
             verdict |-> CrossVerdict(Last(ma.MA[ws[ps[k][1]]]), Last(ma.MA[ws[ps[k][2]]]))]]

\* main: the Moving Average Crossovers section
RECURSIVE CrossoverReport(_, _)
CrossoverReport(self, c) ==
    IF c > Len(AnalysisColumns) THEN <<>>
    ELSE LET ma == calculate_moving_averages(self, AnalysisColumns[c], NoneArg).ret
             rest == CrossoverReport(self, c + 1)
         IN  IF Len(ma.series) >= SeqMax(self.ma_windows)
             THEN <<[column |-> AnalysisColumns[c],
                     pairs |-> CrossoverPairs(ma, self.ma_windows)]>> \o rest
             ELSE rest

\* dashboard.data.tail(10), or all of it when shorter
TailRows == 10
TailOf(s) == IF Len(s) >= TailRows THEN SubSeq(s, Len(s) - TailRows + 1, Len(s)) ELSE s

(* --------------------------- dashboard inputs -------------------------- *)
MaxRows == 10      \* rows of a snapshot file
MaxSelected == 2   \* options the user picks in the multiselect
MaxFiles == 2      \* snapshot files in the directory

MenuOptions == {5, 10, 20, 50, 100, 200}
WidgetDefault == <<5, 20, 50>>

\* The multiselect returns the chosen options, each once, in the order chosen
Selections ==
    {WidgetDefault} \cup
    UNION {{s \in [1..k -> MenuOptions] : \A a, b \in 1..k : a # b => s[a] # s[b]}
           : k \in 0..MaxSelected}

\* Series shapes: rising, falling, flat
Shape(k, n) ==
    [i \in 1..n |-> IF k % 3 = 0 THEN Obs(i)
                    ELSE IF k % 3 = 1 THEN Obs(n + 1 - i)
                    ELSE Obs(1)]
Punch(s, h) == [i \in 1..Len(s) |-> IF i = h THEN NaN ELSE s[i]]
ReserveCells(s) ==
    [i \in 1..Len(s) |-> IF IsNaN(s[i]) THEN Cell("junk", 0)
                         ELSE IF s[i].num % 2 = 0 THEN Cell("commas", s[i].num)
                         ELSE Cell("number", s[i].num)]

\* A snapshot file's table: n rows, column shapes rotated by k, and a
\* missing value at row h of column c (h = 0: none)
FileTable(n, k, h, c) ==
    [Fed_Funds_Rate  |-> IF c = 1 THEN Punch(Shape(k, n), h) ELSE Shape(k, n),
     TED_Spread      |-> IF c = 2 THEN Punch(Shape(k + 1, n), h) ELSE Shape(k + 1, n),
     Excess_Reserves |-> ReserveCells(IF c = 3 THEN Punch(Shape(k + 2, n), h)
                                      ELSE Shape(k + 2, n))]

FileTables ==
    {FileTable(n, k, 0, 1) : n \in 0..MaxRows, k \in 0..2} \cup
    UNION {{FileTable(n, k, h, c) : k \in 0..2, h \in {1, n}, c \in 1..3} : n \in 1..MaxRows}

File(name, mtime, kind, table) == [name |-> name, mtime |-> mtime, kind |-> kind, table |-> table]
Unreadable(name, mtime) == File(name, mtime, "unreadable", FileTable(0, 0, 0, 1))

\* One readable snapshot in the directory
SingleFileDirs == {{File(1, 1, "table", t)} : t \in FileTables}

\* Up to MaxFiles files, readable or not, with small tables
SmallTables == {FileTable(n, 0, 0, 1) : n \in 0..2}
SmallFiles ==
    {File(nm, mt, "table", t) : nm \in 1..MaxFiles, mt \in 1..MaxFiles, t \in SmallTables}
    \cup {Unreadable(nm, mt) : nm \in 1..MaxFiles, mt \in 1..MaxFiles}
MixedDirs ==
    {fs \in SUBSET SmallFiles : \A f, g \in fs : f.name = g.name => f = g}

(* ------------------------ liquidity_dashboard.main --------------------- *)
HarnessIdle ==
    /\ first = [called |-> FALSE, column |-> "", windows |-> NoneArg, ret |-> EmptyFrame]
    /\ again = <<>>
    /\ ncalls = 0

NoneFetched == [fed_funds |-> <<>>, treasury_yields |-> <<>>, ted_spread |-> <<>>,
                excess_reserves |-> <<>>]

FetchBlank ==
    /\ fetched = NoneFetched
    /\ mat = 0
    /\ log = <<>>
    /\ report = <<>>

FetchIdle ==
    /\ fpc = "idle"
    /\ FetchBlank

DashBlank ==
    /\ selected = <<>>
    /\ loaded_from = <<>>
    /\ errors = <<>>
    /\ rendered = <<>>
    /\ metrics = <<>>
    /\ analysis = [text |-> "", lines |-> <<>>]
    /\ charts = <<>>
    /\ crossovers = <<>>
    /\ recent = <<>>

DashStart ==
    /\ dashboard = NewDashboard
    /\ pc = "sidebar"
    /\ DashBlank

Init ==
    /\ files \in SingleFileDirs
    /\ DashStart
    /\ HarnessIdle
    /\ FetchIdle

InitDir ==
    /\ files \in MixedDirs
    /\ DashStart
    /\ HarnessIdle
    /\ FetchIdle

\* A variant that assigns the selection even when it is empty.
SidebarAlways(sel) ==
    /\ pc = "sidebar"
    /\ selected' = sel
    /\ dashboard' = [dashboard EXCEPT !.ma_windows = sel]
    /\ pc' = "load"
    /\ UNCHANGED <<files, loaded_from, errors, rendered, metrics, analysis, charts,
                   crossovers, recent>>
    /\ UNCHANGED harnessVars /\ UNCHANGED fetchVars

\* selected_ma_periods = st.sidebar.multiselect(...); if selected_ma_periods: ...
Sidebar(sel) ==
    /\ pc = "sidebar"
    /\ selected' = sel
    /\ dashboard' = IF sel # <<>> THEN [dashboard EXCEPT !.ma_windows = sel] ELSE dashboard
    /\ pc' = "load"
    /\ UNCHANGED <<files, loaded_from, errors, rendered, metrics, analysis, charts,
                   crossovers, recent>>
    /\ UNCHANGED harnessVars /\ UNCHANGED fetchVars

\* if dashboard.load_data():
LoadData ==
    /\ pc = "load"
    /\ \E latest_file \in (IF files = {} THEN {Unreadable(0, 0)} ELSE LatestFiles(files)) :
          LET r == load_data(dashboard, files, latest_file)
          IN  /\ dashboard' = r.self
              /\ errors' = errors \o r.err
              /\ loaded_from' = r.file
              /\ pc' = IF r.ret THEN "metrics" ELSE "footer"
    /\ UNCHANGED <<files, selected, rendered, metrics, analysis, charts, crossovers, recent>>
    /\ UNCHANGED harnessVars /\ UNCHANGED fetchVars

\* the three st.metric cards
Metrics ==
    /\ pc = "metrics"
    /\ metrics' =
         <<[label |-> "Current Fed Funds Rate",
            value |-> Last(dashboard.data.Fed_Funds_Rate),
            delta |-> calculate_metric_change(dashboard, "Fed_Funds_Rate")],
           [label |-> "TED Spread",
            value |-> Last(dashboard.data.TED_Spread),
            delta |-> calculate_metric_change(dashboard, "TED_Spread")],
           [label |-> "Excess Reserves (Billions)",
            value |-> DivBy1e9(Last(dashboard.data.Excess_Reserves)),
            delta |-> DivBy1e9(calculate_metric_change(dashboard, "Excess_Reserves"))]>>
    /\ rendered' = Append(rendered, "metrics")
    /\ pc' = "analysis"
    /\ UNCHANGED <<files, dashboard, selected, loaded_from, errors, analysis, charts,
                   crossovers, recent>>
    /\ UNCHANGED harnessVars /\ UNCHANGED fetchVars

\* st.markdown(dashboard.add_ma_analysis())
Analysis ==
    /\ pc = "analysis"
    /\ analysis' = add_ma_analysis(dashboard)
    /\ rendered' = Append(rendered, "analysis")
    /\ pc' = "charts"
    /\ UNCHANGED <<files, dashboard, selected, loaded_from, errors, metrics, charts,
                   crossovers, recent>>
    /\ UNCHANGED harnessVars /\ UNCHANGED fetchVars

\* the three chart tabs
Charts ==
    /\ pc = "charts"
    /\ charts' = plot_with_moving_averages(dashboard, "Fed_Funds_Rate")
                 \o plot_with_moving_averages(dashboard, "TED_Spread")
                 \o plot_with_moving_averages(dashboard, "Excess_Reserves_Billions")
    /\ rendered' = Append(rendered, "charts")
    /\ pc' = "crossovers"
    /\ UNCHANGED <<files, dashboard, selected, loaded_from, errors, metrics, analysis,
                   crossovers, recent>>
    /\ UNCHANGED harnessVars /\ UNCHANGED fetchVars

\* Technical Analysis: Moving Average Crossovers
Crossovers ==
    /\ pc = "crossovers"
    /\ crossovers' = CrossoverReport(dashboard, 1)
    /\ rendered' = Append(rendered, "crossovers")
    /\ pc' = "table"
    /\ UNCHANGED <<files, dashboard, selected, loaded_from, errors, metrics, analysis,
                   charts, recent>>
    /\ UNCHANGED harnessVars /\ UNCHANGED fetchVars

\* Recent Data table and the download button
RecentData ==
    /\ pc = "table"
    /\ recent' = [c \in Columns |-> TailOf(ColumnOf(dashboard.data, c))]
    /\ rendered' = rendered \o <<"table", "download">>
    /\ pc' = "footer"
    /\ UNCHANGED <<files, dashboard, selected, loaded_from, errors, metrics, analysis,
                   charts, crossovers>>
    /\ UNCHANGED harnessVars /\ UNCHANGED fetchVars

\* the footer, rendered whether or not data was loaded
Footer ==
    /\ pc = "footer"
    /\ rendered' = Append(rendered, "footer")
    /\ pc' = "done"
    /\ UNCHANGED <<files, dashboard, selected, loaded_from, errors, metrics, analysis,
                   charts, crossovers, recent>>
    /\ UNCHANGED harnessVars /\ UNCHANGED fetchVars

Next ==
    \/ \E sel \in Selections : Sidebar(sel)
    \/ LoadData
    \/ Metrics
    \/ Analysis
    \/ Charts
    \/ Crossovers
    \/ RecentData
    \/ Footer

Spec == Init /\ [][Next]_vars
SpecDir == InitDir /\ [][Next]_vars

(* ---------------- calls of calculate_moving_averages ------------------- *)
\* Observation sequences of length n over 1..MaxVal and NaN
Observations == {NaN} \cup {Obs(v) : v \in 1..MaxVal}
SeriesOfLen(n) == [1..n -> Observations]
ExampleRising == <<Obs(1), Obs(2), Obs(3), Obs(4), Obs(5)>>
ExampleGap == <<Obs(1), NaN, Obs(3)>>
EngineSeries == UNION {SeriesOfLen(n) : n \in 0..MaxLen} \cup {ExampleRising, ExampleGap}

Reverse(s) == [i \in 1..Len(s) |-> s[Len(s) + 1 - i]]
EngineTables == {NoData} \cup {Table(s, Reverse(s), s) : s \in EngineSeries}

WindowLists == UNION {[1..k -> (-1)..MaxWin] : k \in 0..MaxWinList}
WindowArgs == {NoneArg} \cup {Some(ws) : ws \in WindowLists}
EngineColumns == {AnalysisColumns[c] : c \in 1..Len(AnalysisColumns)}
\* arguments of the calls made between the first call and its repetition
OtherArgs == {NoneArg} \cup {Some(<<w>>) : w \in (-1)..MaxWin}

InitEngine ==
    /\ files = {}
    /\ dashboard \in [data : EngineTables, ma_windows : {DefaultWindows, <<2, 3>>}]
    /\ pc = "engine"
    /\ DashBlank
    /\ HarnessIdle
    /\ FetchIdle

\* the first call of a run
EngineCall(column, windows) ==
    /\ pc = "engine" /\ ncalls = 0
    /\ LET r == calculate_moving_averages(dashboard, column, windows)
       IN  /\ dashboard' = r.self
           /\ first' = [called |-> TRUE, column |-> column, windows |-> windows, ret |-> r.ret]
    /\ ncalls' = 1
    /\ UNCHANGED <<files, pc, selected, loaded_from, errors, rendered, metrics, analysis,
                   charts, crossovers, recent, again>>
    /\ UNCHANGED fetchVars

\* a later call with other arguments; its result is dropped
EngineOther(column, windows) ==
    /\ pc = "engine" /\ ncalls >= 1 /\ ncalls < MaxCalls
    /\ <<column, windows>> # <<first.column, first.windows>>
    /\ dashboard' = calculate_moving_averages(dashboard, column, windows).self
    /\ ncalls' = ncalls + 1
    /\ UNCHANGED <<files, pc, selected, loaded_from, errors, rendered, metrics, analysis,
                   charts, crossovers, recent, first, again>>
    /\ UNCHANGED fetchVars

\* a later call with the arguments of the first call
EngineRepeat ==
    /\ pc = "engine" /\ ncalls >= 1 /\ ncalls < MaxCalls /\ again = <<>>
    /\ LET r == calculate_moving_averages(dashboard, first.column, first.windows)
       IN  /\ dashboard' = r.self
           /\ again' = <<[ret |-> r.ret, nth |-> ncalls + 1]>>
    /\ ncalls' = ncalls + 1
    /\ UNCHANGED <<files, pc, selected, loaded_from, errors, rendered, metrics, analysis,
                   charts, crossovers, recent, first>>
    /\ UNCHANGED fetchVars

NextEngine ==
    \/ \E column \in EngineColumns, windows \in WindowArgs : EngineCall(column, windows)
    \/ \E column \in EngineColumns, windows \in OtherArgs : EngineOther(column, windows)
    \/ EngineRepeat

SpecEngine == InitEngine /\ [][NextEngine]_vars

(* --------------------------- LiquidityLens.py -------------------------- *)
\* A fetched series is kept as its last observation; None is <<>>.
Maturities == <<"DGS1MO", "DGS3MO", "DGS6MO", "DGS1", "DGS2", "DGS5", "DGS10", "DGS30">>
\* get_series raises, or returns a series ending in some observation
FredOutcomes == {[ok |-> FALSE, last |-> NaN]} \cup {[ok |-> TRUE, last |-> x] : x \in Observations}
\* date.today(): the date in the snapshot's name, and its modification time
Today == 2

IsNotNone(x) == x # <<>>
\* the guard of the save: all(v is not None for v in [...])
AnyNotNone(f) ==
    IsNotNone(f.fed_funds) \/ IsNotNone(f.treasury_yields)
    \/ IsNotNone(f.ted_spread) \/ IsNotNone(f.excess_reserves)
AllNotNone(f) ==
    IsNotNone(f.fed_funds) /\ IsNotNone(f.treasury_yields)
    /\ IsNotNone(f.ted_spread) /\ IsNotNone(f.excess_reserves)

\* the one-row table written by daily_data.to_csv
SnapshotCell(x) == IF IsNaN(x) THEN Cell("junk", 0) ELSE Cell("number", x.num)
DailyData(f) ==
    [Fed_Funds_Rate  |-> <<f.fed_funds[1]>>,
     TED_Spread      |-> <<f.ted_spread[1]>>,
     Excess_Reserves |-> <<SnapshotCell(f.excess_reserves[1])>>]

InitFetch ==
    /\ files \in {{}, {File(Today - 1, Today - 1, "table", FileTable(1, 0, 0, 1))},
                  {File(Today, Today - 1, "table", FileTable(1, 0, 0, 1))}}
    /\ dashboard = NewDashboard
    /\ pc = "off"
    /\ DashBlank
    /\ HarnessIdle
    /\ fpc = "fed_funds"
    /\ FetchBlank

\* fed_funds = tracker.get_fed_funds_rate()
GetFedFundsRate(o) ==
    /\ fpc = "fed_funds"
    /\ IF ~o.ok
       THEN /\ log' = Append(log, "Error fetching Fed Funds Rate")
            /\ fetched' = [fetched EXCEPT !.fed_funds = <<>>]
       ELSE /\ log' = log
            /\ fetched' = [fetched EXCEPT !.fed_funds = <<o.last>>]
    /\ fpc' = "treasury_yields"
    /\ UNCHANGED <<files, mat, report>>
    /\ UNCHANGED dashVars /\ UNCHANGED harnessVars

\* one iteration of the loop of get_treasury_yields; an error leaves the loop
GetTreasuryYield(o) ==
    /\ fpc = "treasury_yields"
    /\ mat < Len(Maturities)
    /\ IF ~o.ok
       THEN /\ log' = Append(log, "Error fetching Treasury Yields")
            /\ fetched' = [fetched EXCEPT !.treasury_yields = <<>>]
            /\ mat' = mat
            /\ fpc' = "ted_spread"
       ELSE /\ log' = log
            /\ mat' = mat + 1
            /\ fetched' = IF mat + 1 = Len(Maturities)
                          THEN [fetched EXCEPT !.treasury_yields = <<o.last>>]
                          ELSE fetched
            /\ fpc' = IF mat + 1 = Len(Maturities) THEN "ted_spread" ELSE fpc
    /\ UNCHANGED <<files, report>>
    /\ UNCHANGED dashVars /\ UNCHANGED harnessVars

\* ted_spread = tracker.get_ted_spread()
GetTedSpread(o) ==
    /\ fpc = "ted_spread"
    /\ IF ~o.ok
       THEN /\ log' = Append(log, "Error fetching TED Spread")
            /\ fetched' = [fetched EXCEPT !.ted_spread = <<>>]
       ELSE /\ log' = log
            /\ fetched' = [fetched EXCEPT !.ted_spread = <<o.last>>]
    /\ fpc' = "excess_reserves"
    /\ UNCHANGED <<files, mat, report>>
    /\ UNCHANGED dashVars /\ UNCHANGED harnessVars

\* excess_reserves = tracker.get_excess_reserves()
GetExcessReserves(o) ==
    /\ fpc = "excess_reserves"
    /\ IF ~o.ok
       THEN /\ log' = Append(log, "Error fetching Excess Reserves")
            /\ fetched' = [fetched EXCEPT !.excess_reserves = <<>>]
       ELSE /\ log' = log
            /\ fetched' = [fetched EXCEPT !.excess_reserves = <<o.last>>]
    /\ fpc' = "report"
    /\ UNCHANGED <<files, mat, report>>
    /\ UNCHANGED dashVars /\ UNCHANGED harnessVars

ReportLine(label, x) == IF IsNotNone(x) THEN <<label>> ELSE <<>>

\* the daily report and the yield-curve plot
DailyReport ==
    /\ fpc = "report"
    /\ report' = <<"=== Daily Liquidity Report ===">>
                 \o ReportLine("Federal Funds Rate", fetched.fed_funds)
                 \o ReportLine("TED Spread", fetched.ted_spread)
                 \o ReportLine("Excess Reserves", fetched.excess_reserves)
                 \o ReportLine("Treasury Yield Curve", fetched.treasury_yields)
    /\ fpc' = "save"
    /\ UNCHANGED <<files, fetched, mat, log>>
    /\ UNCHANGED dashVars /\ UNCHANGED harnessVars

\* Save data to CSV: .iloc[-1] of a None raises
SaveCsv ==
    /\ fpc = "save"
    /\ IF AllNotNone(fetched)
       THEN IF IsNotNone(fetched.fed_funds) /\ IsNotNone(fetched.ted_spread)
               /\ IsNotNone(fetched.excess_reserves)
            THEN /\ files' = {f \in files : f.name # Today}
                             \cup {File(Today, Today, "table", DailyData(fetched))}
                 /\ fpc' = "done"
            ELSE /\ files' = files
                 /\ fpc' = "raised"
       ELSE /\ files' = files
            /\ fpc' = "done"
    /\ UNCHANGED <<fetched, mat, log, report>>
    /\ UNCHANGED dashVars /\ UNCHANGED harnessVars

NextFetch ==
    \/ \E o \in FredOutcomes : GetFedFundsRate(o)
    \/ \E o \in FredOutcomes : GetTreasuryYield(o)
    \/ \E o \in FredOutcomes : GetTedSpread(o)
    \/ \E o \in FredOutcomes : GetExcessReserves(o)
    \/ DailyReport
    \/ SaveCsv

SpecFetch == InitFetch /\ [][NextFetch]_vars

(* ============================ properties =============================== *)
\* the windows a call works with: the argument, or self.ma_windows for None
Requested(f) == IF f.windows = NoneArg THEN dashboard.ma_windows ELSE f.windows[1]
NoNaNIn(s) == \A i \in 1..Len(s) : ~IsNaN(s[i])

RECURSIVE SumNum(_, _, _)
SumNum(s, a, b) == IF a > b THEN 0 ELSE s[a].num + SumNum(s, a + 1, b)
\* the arithmetic mean of s[a..b], all of them observed
DirectMean(s, a, b) == [num |-> SumNum(s, a, b), den |-> b - a + 1, e9 |-> s[b].e9]
\* the trailing mean of the last w rows of s: NaN unless all w are there and observed
LatestMean(s, w) ==
    IF w >= 1 /\ Len(s) >= w /\ \A j \in (Len(s) - w + 1)..Len(s) : ~IsNaN(s[j])
    THEN DirectMean(s, Len(s) - w + 1, Len(s))
    ELSE NaN

\* C1: on a series without missing values, and windows none of which is
\* negative, the call returns a table in which, for every requested window
\* w >= 1, MA_w is defined at row i exactly when i >= w (1-based) and equals
\* the arithmetic mean of rows i-w+1..i.
C1_FullWindowMeans ==
    (/\ first.called
     /\ ~IsEmpty(dashboard.data)
     /\ NoNaNIn(BaseSeries(dashboard.data, first.column))
     /\ \A k \in 1..Len(Requested(first)) : Requested(first)[k] >= 0)
    => /\ first.ret.kind = "frame"
       /\ first.ret.series = BaseSeries(dashboard.data, first.column)
       /\ \A k \in 1..Len(Requested(first)) :
            LET w == Requested(first)[k]
                s == first.ret.series
            IN  w >= 1 =>
                  /\ w \in DOMAIN first.ret.MA
                  /\ Len(first.ret.MA[w]) = Len(s)
                  /\ \A i \in 1..Len(s) :
                       /\ (~IsNaN(first.ret.MA[w][i])) <=> (i >= w)
                       /\ i >= w => EqNum(first.ret.MA[w][i], DirectMean(s, i - w + 1, i))

\* S = [1,2,3,4,5], W = [2,3]: MA_2 = [NaN,1.5,2.5,3.5,4.5], MA_3 = [NaN,NaN,2,3,4]
C1_Witness ==
    /\ first.called
    /\ first.column = "Fed_Funds_Rate"
    /\ first.windows = Some(<<2, 3>>)
    /\ first.ret.kind = "frame"
    /\ first.ret.series = ExampleRising
    /\ first.ret.MA[2] = <<NaN, [num |-> 3, den |-> 2, e9 |-> 0], [num |-> 5, den |-> 2, e9 |-> 0],
                           [num |-> 7, den |-> 2, e9 |-> 0], [num |-> 9, den |-> 2, e9 |-> 0]>>
    /\ first.ret.MA[3] = <<NaN, NaN, [num |-> 6, den |-> 3, e9 |-> 0],
                           [num |-> 9, den |-> 3, e9 |-> 0], [num |-> 12, den |-> 3, e9 |-> 0]>>

\* C2: in every returned table, MA_w at row i is NaN whenever the window
\* ending at i is not full or holds a missing observation.
C2_NullPropagates ==
    (first.called /\ first.ret.kind = "frame")
    => \A w \in DOMAIN first.ret.MA : \A i \in 1..Len(first.ret.series) :
          (i < w \/ \E j \in (i - w + 1)..i : j >= 1 /\ IsNaN(first.ret.series[j]))
          => IsNaN(first.ret.MA[w][i])

\* S = [1,NaN,3], W = [2]: MA_2 = [NaN,NaN,NaN]
C2_Witness ==
    /\ first.called
    /\ first.windows = Some(<<2>>)
    /\ first.ret.kind = "frame"
    /\ first.ret.series = ExampleGap
    /\ first.ret.MA[2] = <<NaN, NaN, NaN>>

HasDuplicate(ws) == \E a, b \in 1..Len(ws) : a # b /\ ws[a] = ws[b]

\* C3: a call whose window list holds a window <= 0 or the same window twice
\* is rejected with a validation failure and returns no table.
C3_InvalidWindowsRejected ==
    (first.called /\ (HasDuplicate(Requested(first))
                      \/ \E k \in 1..Len(Requested(first)) : Requested(first)[k] <= 0))
    => first.ret.kind = "ValueError"

\* C9: no call changes self.data or self.ma_windows, and a call repeated
\* after any other calls returns what the first call returned.
C9_CallsArePure ==
    /\ [][dashboard' = dashboard]_vars
    /\ [](again # <<>> => again[1].ret = first.ret)

C9_Witness ==
    /\ again # <<>>
    /\ again[1].nth >= 3
    /\ first.column = "Excess_Reserves_Billions"
    /\ first.ret.kind = "frame"
    /\ first.ret.series # <<>>
    /\ first.ret.MA # <<>>

(* ----------------------- dashboard properties -------------------------- *)
PcOrder == <<"sidebar", "load", "metrics", "analysis", "charts", "crossovers", "table",
             "footer", "done">>
PcIndex(p) == CHOOSE k \in 1..Len(PcOrder) : PcOrder[k] = p
Loaded == loaded_from # <<>>
\* the section at position p has been rendered in a run that loaded data
Past(p) == Loaded /\ pc \in {PcOrder[k] : k \in 1..Len(PcOrder)} /\ PcIndex(pc) > PcIndex(p)

\* the classifications add_ma_analysis reported for a column
ItemsOf(column) ==
    IF \E k \in 1..Len(analysis.lines) : analysis.lines[k].column = AnalysisLabel(column)
    THEN analysis.lines[CHOOSE k \in 1..Len(analysis.lines) :
                            analysis.lines[k].column = AnalysisLabel(column)].items
    ELSE <<>>
ItemsFor(column, w) == {k \in 1..Len(ItemsOf(column)) : ItemsOf(column)[k].window = w}
LatestValue(column) == Last(BaseSeries(dashboard.data, column))
LatestMA(column, w) == LatestMean(BaseSeries(dashboard.data, column), w)
LT(a, b) == GT(b, a)

\* C4 as stated: every configured window gets exactly one classification,
\* "above" / "below" / "undefined" as the latest value is greater than, less
\* than, or not comparable to (mean is NaN) that window's latest mean.
C4_OnePerWindow ==
    Past("analysis") =>
      \A c \in 1..Len(AnalysisColumns) : \A k \in 1..Len(dashboard.ma_windows) :
         LET column == AnalysisColumns[c]
             w == dashboard.ma_windows[k]
         IN  /\ Cardinality(ItemsFor(column, w)) = 1
             /\ \A n \in ItemsFor(column, w) :
                  /\ IsNaN(LatestMA(column, w)) => ItemsOf(column)[n].verdict = "undefined"
                  /\ GT(LatestValue(column), LatestMA(column, w))
                       => ItemsOf(column)[n].verdict = "above"
                  /\ LT(LatestValue(column), LatestMA(column, w))
                       => ItemsOf(column)[n].verdict = "below"

\* C4 amended: a window whose latest mean is NaN gets no classification at
\* all (omitted, never an error, never above/below); every other window gets
\* exactly one, "above" when the latest value is greater than the mean and
\* "below" otherwise (less or equal), in the order of the window list.
C4_AtMostOnePerWindow ==
    Past("analysis") =>
      /\ analysis.text = "lines"
      /\ \A c \in 1..Len(AnalysisColumns) :
           LET column == AnalysisColumns[c]
               items == ItemsOf(column)
           IN  /\ \A k \in 1..Len(dashboard.ma_windows) :
                    LET w == dashboard.ma_windows[k]
                    IN  IF IsNaN(LatestMA(column, w))
                        THEN ItemsFor(column, w) = {}
                        ELSE /\ Cardinality(ItemsFor(column, w)) = 1
                             /\ \A n \in ItemsFor(column, w) :
                                  items[n].verdict =
                                     IF GT(LatestValue(column), LatestMA(column, w))
                                     THEN "above" ELSE "below"
               /\ \A n \in 1..Len(items) :
                    /\ items[n].verdict \in {"above", "below"}
                    /\ \E k \in 1..Len(dashboard.ma_windows) : dashboard.ma_windows[k] = items[n].window
               /\ \A m, n \in 1..Len(items) :
                    m < n => \E j, k \in 1..Len(dashboard.ma_windows) :
                                /\ j < k
                                /\ dashboard.ma_windows[j] = items[m].window
                                /\ dashboard.ma_windows[k] = items[n].window

\* A run where one column is above its 5-day mean, another below, another
\* equal to it (hence "below"), and a window lacks history and is omitted
C4_Witness ==
    /\ Past("analysis")
    /\ Len(dashboard.ma_windows) = 2
    /\ \E c \in 1..3 : \E n \in 1..Len(ItemsOf(AnalysisColumns[c])) :
          ItemsOf(AnalysisColumns[c])[n].verdict = "above"
    /\ \E c \in 1..3 : \E n \in 1..Len(ItemsOf(AnalysisColumns[c])) :
          /\ ItemsOf(AnalysisColumns[c])[n].verdict = "below"
          /\ LT(LatestValue(AnalysisColumns[c]),
                LatestMA(AnalysisColumns[c], ItemsOf(AnalysisColumns[c])[n].window))
    /\ \E c \in 1..3 : \E n \in 1..Len(ItemsOf(AnalysisColumns[c])) :
          /\ ItemsOf(AnalysisColumns[c])[n].verdict = "below"
          /\ EqNum(LatestValue(AnalysisColumns[c]),
                   LatestMA(AnalysisColumns[c], ItemsOf(AnalysisColumns[c])[n].window))
    /\ \E c \in 1..3 : Len(ItemsOf(AnalysisColumns[c])) = 1

LexLess(a1, a2, b1, b2) == a1 < b1 \/ (a1 = b1 /\ a2 < b2)
WindowSet == {dashboard.ma_windows[k] : k \in 1..Len(dashboard.ma_windows)}

\* C5: in every crossover report, whatever the selection order, each
\* unordered pair of windows appears exactly once, shorter window first, and
\* the pairs are in strictly ascending (shorter, longer) order.
C5_PairsAscending ==
    Past("crossovers") =>
      \A r \in 1..Len(crossovers) :
         LET ps == crossovers[r].pairs
         IN  /\ \A k \in 1..Len(ps) : ps[k].ma1 < ps[k].ma2
             /\ \A k, l \in 1..Len(ps) :
                  k < l => LexLess(ps[k].ma1, ps[k].ma2, ps[l].ma1, ps[l].ma2)
             /\ \A a, b \in WindowSet :
                  a < b => Cardinality({k \in 1..Len(ps) : ps[k].ma1 = a /\ ps[k].ma2 = b}) = 1

\* C6: a reported pair is "above" only when both latest means exist and the
\* first exceeds the second, "below" only when both exist and it does not;
\* a pair with a NaN side is neither.
C6_NullPairUndefined ==
    Past("crossovers") =>
      \A r \in 1..Len(crossovers) : \A k \in 1..Len(crossovers[r].pairs) :
         LET p == crossovers[r].pairs[k]
             a == LatestMA(crossovers[r].column, p.ma1)
             b == LatestMA(crossovers[r].column, p.ma2)
         IN  /\ p.verdict = "above" => (~IsNaN(a) /\ ~IsNaN(b) /\ GT(a, b))
             /\ p.verdict = "below" => (~IsNaN(a) /\ ~IsNaN(b) /\ ~GT(a, b))
             /\ (IsNaN(a) \/ IsNaN(b)) => p.verdict \notin {"above", "below"}

Invalid(f) == f.kind = "unreadable" \/ Len(f.table.Fed_Funds_Rate) = 0
InRun == pc \in {PcOrder[k] : k \in 1..Len(PcOrder)}
AfterLoad == InRun /\ PcIndex(pc) > PcIndex("load")
RenderedSet == {rendered[k] : k \in 1..Len(rendered)}

\* C7: with no snapshot file, or when the most recently modified one is empty
\* or unreadable, load_data shows one error and returns False, main renders
\* nothing but the footer; a file that is loaded is one that no other file
\* is more recent than.
C7_DegradedOrLatest ==
    /\ (AfterLoad /\ (files = {} \/ \A f \in LatestFiles(files) : Invalid(f)))
       => /\ ~Loaded
          /\ Len(errors) = 1
          /\ pc \in {"footer", "done"}
          /\ RenderedSet \subseteq {"footer"}
          /\ pc = "done" => rendered = <<"footer">>
    /\ (AfterLoad /\ ~Loaded) => (metrics = <<>> /\ charts = <<>> /\ crossovers = <<>>
                                  /\ analysis.text = "" /\ RenderedSet \subseteq {"footer"})
    /\ (AfterLoad /\ Loaded)
       => /\ loaded_from[1] \in files
          /\ ~Invalid(loaded_from[1])
          /\ \A g \in files : g.mtime <= loaded_from[1].mtime
          /\ dashboard.data = ParseTable(loaded_from[1].table)
          /\ errors = <<>>

\* The latest file is unreadable while an older one is fine: only the footer
C7_Witness ==
    /\ pc = "done"
    /\ rendered = <<"footer">>
    /\ errors = <<"Error loading data">>
    /\ Cardinality(files) = 2
    /\ \E f, g \in files : f.mtime < g.mtime /\ ~Invalid(f) /\ Invalid(g)

\* C10: after the sidebar, ma_windows is a non-empty list of distinct menu
\* options: the selection when one was made, the constructor default
\* otherwise; no window <= 0 is ever configured.
C10_WindowsFromMenu ==
    /\ InRun =>
         /\ Len(dashboard.ma_windows) >= 1
         /\ ~HasDuplicate(dashboard.ma_windows)
         /\ \A k \in 1..Len(dashboard.ma_windows) :
              dashboard.ma_windows[k] \in MenuOptions /\ dashboard.ma_windows[k] > 0
    /\ (InRun /\ pc # "sidebar") =>
         dashboard.ma_windows = IF selected # <<>> THEN selected ELSE <<5, 10, 20, 50>>

C10_Witness ==
    /\ pc = "done"
    /\ Loaded
    /\ selected = <<>>
    /\ dashboard.ma_windows = <<5, 10, 20, 50>>
    /\ Len(analysis.lines) = 3

(* ------------------------- fetcher properties -------------------------- *)
NoneCount(f) ==
    (IF f.fed_funds = <<>> THEN 1 ELSE 0) + (IF f.treasury_yields = <<>> THEN 1 ELSE 0)
    + (IF f.ted_spread = <<>> THEN 1 ELSE 0) + (IF f.excess_reserves = <<>> THEN 1 ELSE 0)
Written == \E f \in files : f.mtime = Today

\* C8: main never raises; a run in which a fetch failed has logged each
\* failure and written no snapshot; a snapshot is written only when all four
\* fetches succeeded.
C8_NoUpdateOnFailure ==
    /\ fpc # "raised"
    /\ fpc = "done" =>
         /\ Len(log) = NoneCount(fetched)
         /\ NoneCount(fetched) > 0 => ~Written
         /\ Written <=> NoneCount(fetched) = 0
    /\ fpc # "done" => ~Written

\* Only the treasury-yield fetch failed, at its last maturity
C8_Witness ==
    /\ fpc = "done"
    /\ log = <<"Error fetching Treasury Yields">>
    /\ mat = Len(Maturities) - 1
    /\ fetched.fed_funds # <<>> /\ fetched.ted_spread # <<>> /\ fetched.excess_reserves # <<>>
    /\ ~Written
====
